---- MODULE Spec2Model ----
(***************************************************************************)
(* tap-instagram: the incremental user_insights stream (streams.py), its   *)
(* request window (build_range), the bookmark it emits, and the retry      *)
(* predicate and retry loop of common.py.                                  *)
(*                                                                         *)
(*   Spec          runs of the user_insights stream under sync             *)
(*   SpecRange     build_range / request_params on their own               *)
(*   SpecClassify  should_retry_api_error on its own                       *)
(*   SpecRetry     a call wrapped by retry_pattern                         *)
(*   SpecRetryFair the same, the loop of backoff never left waiting        *)
(*   SpecInsights  runs of the media_insights and story_insights streams   *)
(*   SpecMerge     the reconciliation of the periods of one account        *)
(*   SpecFields    Stream.fields on its own                                *)
(*   SpecUrl       remove_params_from_url on its own                       *)
(*   SpecRecord    Stream.make_record on its own                           *)
(*   SpecSync      the streams sync selects from a catalog                 *)
(*                                                                         *)
(* Time is counted in whole hours.  A pendulum DateTime is a record        *)
(* [inst, off]: inst is the instant in hours since the epoch (UTC), off    *)
(* the UTC offset of its timezone in hours.  A naive datetime string       *)
(* "YYYY-MM-DD HH:MM:SS" is the wall-clock hour count it shows.  Any other  *)
(* string (a URL, an error message) is the sequence of its parts, the       *)
(* separators "?", "&" and "=" being parts of their own.                    *)
(***************************************************************************)
EXTENDS Integers, Sequences, FiniteSets, TLC

VARIABLES
  now,             \* the clock: the current instant, in hours (UTC)
  tz,              \* UTC offset of the machine's local timezone, in hours
  state,           \* the singer state: stream name -> bookmark key -> value
  pc,              \* position of the running operation
  range,           \* what build_range returned to request_params, <<>> before
  base_params,     \* UserInsights.__iter__'s base_params, <<>> before
  accounts,        \* self._api.accounts: the sequence of accounts of the run
  acct,            \* index of the account of the for loop at line 192
  per,             \* index of the period of the for loop at line 196
  metrics_by_day,  \* the dict of line 195
  pending,         \* sorted(metrics_by_day) not yet iterated (line 210)
  messages,        \* the messages the stream has yielded in this run
  written,         \* what sync has written for them (RECORD / STATE lines)
  bookmark0,       \* the bookmark store as it was when the run started
  writes,          \* calls of singer.write_bookmark in this run
  points,          \* insight values the API has returned in this run
  run,             \* number of the run (1 = first)
  \* A call wrapped by retry_pattern (common.py):
  backoff_type,    \* the wait generator the call site chose
  max_tries,       \* the max_tries the call site passed on, 0 for none
  rpc,             \* position of the retry loop
  tries,           \* invocations of the wrapped call so far
  fails,           \* invocations of the wrapped call that raised
  exc,             \* the error the wrapped call raised last
  verdict,         \* what should_retry_api_error answered last
  retry_log,       \* what log_retry_attempt has logged
  sleeps,          \* the waits slept between invocations
  result,          \* what the caller got: a value or the error raised
  \* A run of the media_insights or story_insights stream (streams.py):
  kind,            \* the stream that runs
  api_accounts,    \* self._api.accounts: the sequence of accounts of the run
  ipc,             \* position of the iteration
  iacct,           \* index of the account of the loop at line 281 / 352
  lists,           \* the media / story lists the API has returned, by account
  ipos,            \* index in the list of the loop at line 285 / 355
  calls,           \* the get_insights calls made, each with what the API did
  yielded,         \* the messages the stream has yielded
  raised,          \* the error that left __iter__, NoExc for none
  \* The reconciliation of one account's insights (streams.py, 195-217):
  results,         \* what get_insights returns for each period
  order,           \* the order in which the periods are iterated
  maccount,        \* the account
  mpc,             \* position of the reconciliation
  emitted,         \* the messages yielded for the account
  \* A call of a function of the tap on its own:
  fn,              \* the function called
  args,            \* its arguments
  cpc,             \* position of the call
  ret              \* what the call returned or raised

runVars == <<now, tz, state, pc, range, base_params, accounts, acct, per,
             metrics_by_day, pending, messages, written, bookmark0, writes,
             points, run>>

retryVars == <<backoff_type, max_tries, rpc, tries, fails, exc, verdict,
               retry_log, sleeps, result>>

insightVars == <<kind, api_accounts, ipc, iacct, lists, ipos, calls, yielded,
                 raised>>

mergeVars == <<results, order, maccount, mpc, emitted>>

callVars == <<fn, args, cpc, ret>>

vars == <<runVars, retryVars, insightVars, mergeVars, callVars>>

\* What the steps of the user_insights stream leave alone, and what the steps
\* of a wrapped call leave alone.
nonRunVars == <<retryVars, insightVars, mergeVars, callVars>>
nonRetryVars == <<runVars, insightVars, mergeVars, callVars>>
nonInsightVars == <<runVars, retryVars, mergeVars, callVars>>
nonMergeVars == <<runVars, retryVars, insightVars, callVars>>
nonCallVars == <<runVars, retryVars, insightVars, mergeVars>>

-----------------------------------------------------------------------------
(* Bounds of the model. *)

MaxAccounts == 2
MaxPoints == 2
MaxRuns == 2
MaxCalls == 3
MaxItems == 4
MaxValues == 3
MaxParams == 3
MaxEntries == 3
MaxStreams == 2

(* Program constants. *)

buffer_days == 30
page_size == 100

-----------------------------------------------------------------------------
(* pendulum, as streams.py uses it. *)

EmptyMap == [x \in {} |-> x]

\* Python's None.
None == [none |-> TRUE]

\* What a call does: it returns a value or raises an error.
Returned(v) == [raised |-> FALSE, value |-> v]
Raised(e) == [raised |-> TRUE, value |-> e]

\* pendulum.today(tz): the start of the current day in timezone tz.  The one
\* parameter of today() is the timezone; a number is a UTC offset in hours.
today(off) == [inst |-> ((now + off) \div 24) * 24 - off, off |-> off]

\* DateTime.subtract(days=n)
subtract_days(dt, n) == [dt EXCEPT !.inst = @ - 24 * n]

\* pendulum.parse of a naive datetime string: read as UTC.
parse(s) == [inst |-> s, off |-> 0]

\* DateTime.to_datetime_string(): the wall clock of the datetime in its own
\* timezone, the offset dropped.
to_datetime_string(dt) == dt.inst + dt.off

\* Python's min(a, b) on datetimes: b when b < a, else a; datetimes compare
\* by instant.
dt_min(a, b) == IF b.inst < a.inst THEN b ELSE a

-----------------------------------------------------------------------------
(* The bookmark store (singer.get_bookmark / singer.write_bookmark). *)

StreamName == "user_insights"
bookmark_key == "date"

get_bookmark ==
  IF StreamName \in DOMAIN state /\ bookmark_key \in DOMAIN state[StreamName]
    THEN parse(state[StreamName][bookmark_key])
    ELSE None

write_bookmark(st, name, key, value) ==
  [n \in DOMAIN st \cup {name} |->
     IF n = name
       THEN [k \in (IF n \in DOMAIN st THEN DOMAIN st[n] ELSE {}) \cup {key} |->
               IF k = key THEN value ELSE st[n][k]]
       ELSE st[n]]

StoredBookmark(st) ==
  IF StreamName \in DOMAIN st /\ bookmark_key \in DOMAIN st[StreamName]
    THEN <<st[StreamName][bookmark_key]>>
    ELSE <<>>

-----------------------------------------------------------------------------
(* UserInsights.build_range and request_params. *)

\* build_range without the min() of line 180.
build_range_without_min ==
  LET min_start_date == subtract_days(today(tz), buffer_days)
      bookmark == get_bookmark
      start_date == IF bookmark # None
                      THEN IF bookmark.inst < min_start_date.inst
                             THEN min_start_date
                             ELSE bookmark
                      ELSE min_start_date
      end_date == today(-1)
  IN  <<start_date, end_date>>

\* build_range with <= for the < of line 167.
build_range_clamping_equal ==
  LET min_start_date == subtract_days(today(tz), buffer_days)
      bookmark == get_bookmark
      start_date == IF bookmark # None
                      THEN IF bookmark.inst <= min_start_date.inst
                             THEN min_start_date
                             ELSE bookmark
                      ELSE min_start_date
      end_date == today(-1)
  IN  <<dt_min(start_date, end_date), end_date>>

build_range ==
  LET min_start_date == subtract_days(today(tz), buffer_days)
      bookmark == get_bookmark
      start_date == IF bookmark # None
                      THEN IF bookmark.inst < min_start_date.inst
                             THEN min_start_date
                             ELSE bookmark
                      ELSE min_start_date
      end_date == today(-1)
  IN  <<dt_min(start_date, end_date), end_date>>

request_params(rg) ==
  [limit |-> page_size,
   since |-> to_datetime_string(rg[1]),
   until |-> to_datetime_string(rg[2])]

-----------------------------------------------------------------------------
(* The insight data of the API and its reconciliation (lines 195-208). *)

Periods == <<"day", "week", "days_28", "lifetime">>

period_to_metrics ==
  [day |-> {"email_contacts", "follower_count", "get_directions_clicks",
            "impressions", "phone_call_clicks", "profile_views", "reach",
            "text_message_clicks", "website_clicks"},
   week |-> {"impressions", "reach"},
   days_28 |-> {"impressions", "reach"},
   lifetime |-> {"online_followers"}]

\* end_time strings of the API, as fixed-width digit strings.
EndTimes == {<<3, 9>>, <<4, 1>>}

\* The wall-clock hour an end_time string names (day number, 07:00).
EndTimeHours(e) == 24 * (10 * e[1] + e[2]) + 7

Values == {1}

\* The metric names the modelled API answers with, of those asked for.
SampleNames == {"follower_count", "impressions", "online_followers"}

RECURSIVE SumLen(_)
SumLen(ms) ==
  IF ms = <<>> THEN 0 ELSE Len(Head(ms).values) + SumLen(Tail(ms))

\* What one get_insights call can return for a period: a sequence of metric
\* objects, each with a name asked for and a non-empty list of values, at
\* most n values in all.
RECURSIVE Responses(_, _)
Responses(period, n) ==
  {<<>>} \cup
  UNION {
    {<<[name |-> nm, values |-> vs]>> \o rest :
       nm \in period_to_metrics[period] \cap SampleNames,
       vs \in [1..k -> [end_time : EndTimes, value : Values]],
       rest \in Responses(period, n - k)} : k \in 1..n}

\* The key of a metric without the suffix of its period.
metric_key_without_suffix(period, name) == name

\* Lines 200-202.
metric_key(period, name) ==
  IF period \in {"week", "days_28"} THEN name \o "_" \o period ELSE name

\* merge_values with the dict of the day set anew for each value
\* (metrics_by_day[end_time] = {key: value}).
RECURSIVE merge_values_replacing_day(_, _, _)
merge_values_replacing_day(mbd, key, values) ==
  IF values = <<>> THEN mbd
  ELSE LET v == Head(values)
           day == [k \in {key} |-> v.value]
           new == [e \in DOMAIN mbd \cup {v.end_time} |->
                     IF e = v.end_time THEN day ELSE mbd[e]]
       IN  merge_values_replacing_day(new, key, Tail(values))

\* Lines 203-208, for the values of one metric.
RECURSIVE merge_values(_, _, _)
merge_values(mbd, key, values) ==
  IF values = <<>> THEN mbd
  ELSE LET v == Head(values)
           old == IF v.end_time \in DOMAIN mbd THEN mbd[v.end_time] ELSE EmptyMap
           day == [k \in DOMAIN old \cup {key} |->
                     IF k = key THEN v.value ELSE old[k]]
           new == [e \in DOMAIN mbd \cup {v.end_time} |->
                     IF e = v.end_time THEN day ELSE mbd[e]]
       IN  merge_values(new, key, Tail(values))

\* Lines 199-208, for the metrics of one response.
RECURSIVE merge_insights(_, _, _)
merge_insights(mbd, period, insights) ==
  IF insights = <<>> THEN mbd
  ELSE merge_insights(
         merge_values(mbd, metric_key(period, Head(insights).name),
                      Head(insights).values),
         period, Tail(insights))

\* Python's < on strings: lexicographic, a proper prefix is smaller.
RECURSIVE str_less(_, _)
str_less(a, b) ==
  IF b = <<>> THEN FALSE
  ELSE IF a = <<>> THEN TRUE
  ELSE IF Head(a) # Head(b) THEN Head(a) < Head(b)
  ELSE str_less(Tail(a), Tail(b))

\* sorted(S, reverse=True): the elements of S in descending order.
RECURSIVE sorted_reverse(_)
sorted_reverse(S) ==
  IF S = {} THEN <<>>
  ELSE LET m == CHOOSE x \in S : \A y \in S \ {x} : str_less(y, x)
       IN  <<m>> \o sorted_reverse(S \ {m})

\* sorted(S): the elements of S in ascending order.
RECURSIVE sorted(_)
sorted(S) ==
  IF S = {} THEN <<>>
  ELSE LET m == CHOOSE x \in S : \A y \in S \ {x} : str_less(x, y)
       IN  <<m>> \o sorted(S \ {m})

-----------------------------------------------------------------------------
(* remove_params_from_url (common.py, lines 91-100) and Stream.clean_url    *)
(* (streams.py, lines 69-79).                                               *)

\* str.split(sep): the pieces of s between the occurrences of sep; an empty
\* string has one piece, the empty string.
RECURSIVE split(_, _)
split(s, sep) ==
  IF \A i \in DOMAIN s : s[i] # sep THEN <<s>>
  ELSE LET first == CHOOSE i \in DOMAIN s :
                      s[i] = sep /\ \A j \in 1..(i - 1) : s[j] # sep
       IN  <<SubSeq(s, 1, first - 1)>>
             \o split(SubSeq(s, first + 1, Len(s)), sep)

\* sep.join(pieces)
RECURSIVE join(_, _)
join(sep, pieces) ==
  IF pieces = <<>> THEN <<>>
  ELSE IF Len(pieces) = 1 THEN Head(pieces)
  ELSE Head(pieces) \o <<sep>> \o join(sep, Tail(pieces))

\* urlparse of a URL without fragment: what stands before the first "?"
\* (scheme, host and path) and the query after it.
urlparse(url) ==
  LET pieces == split(url, "?")
  IN  [base |-> Head(pieces), query |-> join("?", Tail(pieces))]

\* urlunparse: the "?" is written only before a query that is not empty.
urlunparse(parsed) ==
  IF parsed.query = <<>> THEN parsed.base
  ELSE parsed.base \o <<"?">> \o parsed.query

\* Python's "key in params" for a list params.
py_in(key, params) == \E i \in DOMAIN params : params[i] = key

\* Lines 93-97: the loop over the pieces of the query.  key, value =
\* q.split("=") raises ValueError unless q has exactly one "=".
RECURSIVE filter_query(_, _, _)
filter_query(qs, params, res_query) ==
  IF qs = <<>> THEN Returned(res_query)
  ELSE LET kv == split(Head(qs), "=")
       IN  IF Len(kv) # 2 THEN Raised("ValueError")
           ELSE filter_query(
                  Tail(qs), params,
                  IF py_in(kv[1], params) THEN res_query
                  ELSE Append(res_query, kv[1] \o <<"=">> \o kv[2]))

remove_params_from_url(url, params) ==
  LET parsed_url == urlparse(url)
      res_query == filter_query(split(parsed_url.query, "&"), params, <<>>)
  IN  IF res_query.raised THEN res_query
      ELSE Returned(urlunparse([parsed_url EXCEPT
                                  !.query = join("&", res_query.value)]))

\* The keys clean_url names.
BlockedKeys == <<<<"_nc_sid">>, <<"_nc_cat">>, <<"ccb">>>>

\* dict.get(key) is truthy for a URL: the key is there and its value is not
\* the empty string.
has_url(record, key) == key \in DOMAIN record /\ record[key] # <<>>

\* Lines 71-74 and 75-78: one field of the record cleaned, given the outcome
\* so far.
clean_field(outcome, key, params) ==
  IF outcome.raised \/ ~has_url(outcome.value, key) THEN outcome
  ELSE LET url == remove_params_from_url(outcome.value[key], params)
       IN  IF url.raised THEN url
           ELSE Returned([outcome.value EXCEPT ![key] = url.value])

\* Stream.clean_url: params is the list of the keys for media_url and a list
\* holding that list for profile_picture_url.
clean_url(record) ==
  clean_field(clean_field(Returned(record), "media_url", BlockedKeys),
              "profile_picture_url", <<BlockedKeys>>)

-----------------------------------------------------------------------------
(* Messages (Stream.make_record, Stream.make_state) and what sync writes. *)

\* Stream.make_record as a call: the message, or the error clean_url raised.
make_record_call(record) ==
  LET cleaned == clean_url(record)
  IN  IF cleaned.raised THEN cleaned
      ELSE Returned([record |-> cleaned.value])

\* Stream.make_record where it returns.
make_record(record) == make_record_call(record).value

make_state(st) == [state |-> st]

\* Lines 211-216, for the dict of the day mbd[e].
day_record_of(mbd, account, e) ==
  ("date" :> e)
    @@ ("page_id" :> account.page_id)
    @@ ("business_account_id" :> account.id)
    @@ mbd[e]

day_record(account, e) == day_record_of(metrics_by_day, account, e)

\* sync, lines 116-128.
sync_write(message) ==
  IF "record" \in DOMAIN message
    THEN [type |-> "RECORD", stream |-> StreamName, record |-> message.record]
    ELSE [type |-> "STATE", value |-> message.state]

-----------------------------------------------------------------------------
(* Upstream errors and the retry predicate (common.py, lines 39-79). *)

TOO_MANY_REQUESTS == 429
BAD_REQUEST == 400

\* Error messages, word by word.
NotEnoughViewersMessage ==
  <<"(#10)", "Not", "enough", "viewers", "for", "the", "media", "to", "show",
    "insights">>

ErrorMessages ==
  {NotEnoughViewersMessage,
   <<"(#10)", "Not", "enough", "viewers", "for", "the", "story", "to", "show",
     "insights">>,
   <<"(#100)", "Unsupported", "get", "request">>}

\* A FacebookRequestError, by what its accessors return; subcode 0 stands for
\* an error without a subcode.
FacebookRequestErrors ==
  [cls : {"FacebookRequestError"},
   type : {"OAuthException", "GraphMethodException"},
   code : {1, 2, 4, 10, 17, 32, 100, 190, 341, 368, 613},
   subcode : {0, 33, 2108006},
   http_status : {BAD_REQUEST, TOO_MANY_REQUESTS, 500},
   transient : BOOLEAN,
   message : ErrorMessages]

\* An exception that is not of the class handed to retry_pattern.
OtherException ==
  [cls |-> "Exception", type |-> "", code |-> 0, subcode |-> 0,
   http_status |-> 0, transient |-> FALSE, message |-> <<>>]

\* No exception raised yet.
NoExc ==
  [cls |-> "", type |-> "", code |-> 0, subcode |-> 0, http_status |-> 0,
   transient |-> FALSE, message |-> <<>>]

\* should_retry_api_error with the transient-flag test of line 72 moved
\* before the test of the expected error of line 59.
should_retry_transient_first(e) ==
  IF e.type = "OAuthException" /\ e.code \in {1, 2, 4, 17, 341, 368} THEN TRUE
  ELSE IF e.code \in {4, 17, 32, 613} THEN TRUE
  ELSE IF e.http_status = TOO_MANY_REQUESTS THEN TRUE
  ELSE IF e.transient THEN TRUE
  ELSE IF e.code = 10 /\ e.message = NotEnoughViewersMessage THEN FALSE
  ELSE IF e.http_status = BAD_REQUEST /\ e.code = 100 /\ e.subcode = 33 THEN TRUE
  ELSE IF e.subcode = 2108006 THEN FALSE
  ELSE FALSE

\* should_retry_api_error without the test of lines 65-70.
should_retry_without_subcode_33(e) ==
  IF e.type = "OAuthException" /\ e.code \in {1, 2, 4, 17, 341, 368} THEN TRUE
  ELSE IF e.code \in {4, 17, 32, 613} THEN TRUE
  ELSE IF e.http_status = TOO_MANY_REQUESTS THEN TRUE
  ELSE IF e.code = 10 /\ e.message = NotEnoughViewersMessage THEN FALSE
  ELSE IF e.transient THEN TRUE
  ELSE IF e.subcode = 2108006 THEN FALSE
  ELSE FALSE

should_retry_api_error(e) ==
  IF e.type = "OAuthException" /\ e.code \in {1, 2, 4, 17, 341, 368} THEN TRUE
  ELSE IF e.code \in {4, 17, 32, 613} THEN TRUE
  ELSE IF e.http_status = TOO_MANY_REQUESTS THEN TRUE
  ELSE IF e.code = 10 /\ e.message = NotEnoughViewersMessage THEN FALSE
  ELSE IF e.http_status = BAD_REQUEST /\ e.code = 100 /\ e.subcode = 33 THEN TRUE
  ELSE IF e.transient THEN TRUE
  ELSE IF e.subcode = 2108006 THEN FALSE
  ELSE FALSE

\* The giveup of line 86.
giveup(e) == ~should_retry_api_error(e)

-----------------------------------------------------------------------------
(* The values of the variables of an operation that is not running. *)

RunIdle ==
  /\ now = 0
  /\ tz = 0
  /\ state = EmptyMap
  /\ pc = "idle"
  /\ range = <<>>
  /\ base_params = <<>>
  /\ accounts = <<>>
  /\ acct = 0
  /\ per = 1
  /\ metrics_by_day = EmptyMap
  /\ pending = <<>>
  /\ messages = <<>>
  /\ written = <<>>
  /\ bookmark0 = EmptyMap
  /\ writes = 0
  /\ points = 0
  /\ run = 1

RetryIdle ==
  /\ backoff_type = "expo"
  /\ max_tries = 0
  /\ rpc = "idle"
  /\ tries = 0
  /\ fails = 0
  /\ exc = NoExc
  /\ verdict = FALSE
  /\ retry_log = <<>>
  /\ sleeps = <<>>
  /\ result = "none"

InsightIdle ==
  /\ kind = ""
  /\ api_accounts = <<>>
  /\ ipc = "idle"
  /\ iacct = 0
  /\ lists = <<>>
  /\ ipos = 0
  /\ calls = <<>>
  /\ yielded = <<>>
  /\ raised = NoExc

CallIdle ==
  /\ fn = ""
  /\ args = EmptyMap
  /\ cpc = "idle"
  /\ ret = Returned(None)

MergeIdle ==
  /\ results = EmptyMap
  /\ order = <<>>
  /\ maccount = 0
  /\ mpc = "idle"
  /\ emitted = <<>>

-----------------------------------------------------------------------------
(* One run of the user_insights stream: UserInsights.__iter__ driven by the *)
(* for loop of sync.                                                        *)

AllAccounts == [i \in 1..MaxAccounts |-> [page_id |-> 100 + i, id |-> 200 + i]]

\* The clock at the first run, and how far it moves on between two runs.
NowSamples == {24 * 40, 24 * 40 + 12}
ClockSteps == {0, 30}

LocalOffsets == {7}

\* Bookmarks a prior state can hold: older than the buffer, inside the
\* window, later than the clock.
BookmarkSamples == {24 * 5, 24 * 20, 24 * 45}

InitialStates ==
  {EmptyMap} \cup
  {write_bookmark(EmptyMap, StreamName, bookmark_key, b) : b \in BookmarkSamples}

\* Where the iteration stands after the account with index a is finished:
\* the next account of the loop at line 192, or the yield at line 219.
NextAccount(a) ==
  IF a < Len(accounts)
    THEN /\ pc' = "query"
         /\ acct' = a + 1
         /\ per' = 1
         /\ metrics_by_day' = EmptyMap
         /\ pending' = <<>>
    ELSE /\ pc' = "state"
         /\ acct' = a
         /\ per' = 1
         /\ metrics_by_day' = EmptyMap
         /\ pending' = <<>>

\* Line 190: base_params = self.request_params(), then the first account.
StartRun ==
  /\ UNCHANGED nonRunVars
  /\ pc = "start"
  /\ range' = build_range
  /\ base_params' = request_params(range')
  /\ NextAccount(0)
  /\ UNCHANGED <<now, tz, state, accounts, messages, written, bookmark0,
                 writes, points, run>>

\* Lines 196-208 for one period: the query succeeds and its values are merged.
\* After the last period the sorted end_times are taken (line 210).
QueryPeriod ==
  /\ UNCHANGED nonRunVars
  /\ pc = "query"
  /\ \E insights \in Responses(Periods[per], MaxPoints - points) :
       LET merged == merge_insights(metrics_by_day, Periods[per], insights)
       IN  /\ points' = points + SumLen(insights)
           /\ IF per < Len(Periods)
                THEN /\ per' = per + 1
                     /\ metrics_by_day' = merged
                     /\ UNCHANGED <<pc, acct, pending>>
                ELSE IF DOMAIN merged # {}
                  THEN /\ pc' = "emit"
                       /\ metrics_by_day' = merged
                       /\ pending' = sorted(DOMAIN merged)
                       /\ UNCHANGED <<acct, per>>
                  ELSE NextAccount(acct)
  /\ UNCHANGED <<now, tz, state, range, base_params, accounts, messages,
                 written, bookmark0, writes, run>>

\* Line 198 or 199: get_insights, or fetching a further page of its cursor,
\* raises; nothing in __iter__ catches it, and it ends the run.
QueryFails ==
  /\ UNCHANGED nonRunVars
  /\ pc = "query"
  /\ pc' = "failed"
  /\ UNCHANGED <<now, tz, state, range, base_params, accounts, acct, per,
                 metrics_by_day, pending, messages, written, bookmark0,
                 writes, points, run>>

\* EmitRecord with the bookmark written as each record is yielded.
EmitRecord_writing_bookmark ==
  /\ UNCHANGED nonRunVars
  /\ pc = "emit"
  /\ LET message == make_record(day_record(accounts[acct], Head(pending)))
     IN  /\ messages' = Append(messages, message)
         /\ written' = Append(written, sync_write(message))
  /\ state' = write_bookmark(state, StreamName, bookmark_key,
                             EndTimeHours(Head(pending)))
  /\ writes' = writes + 1
  /\ IF Tail(pending) # <<>>
       THEN /\ pending' = Tail(pending)
            /\ UNCHANGED <<pc, acct, per, metrics_by_day>>
       ELSE NextAccount(acct)
  /\ UNCHANGED <<now, tz, range, base_params, accounts, bookmark0, points,
                 run>>

\* Lines 210-217: the record of the next end_time is yielded and sync writes
\* it.
EmitRecord ==
  /\ UNCHANGED nonRunVars
  /\ pc = "emit"
  /\ LET message == make_record(day_record(accounts[acct], Head(pending)))
     IN  /\ messages' = Append(messages, message)
         /\ written' = Append(written, sync_write(message))
  /\ IF Tail(pending) # <<>>
       THEN /\ pending' = Tail(pending)
            /\ UNCHANGED <<pc, acct, per, metrics_by_day>>
       ELSE NextAccount(acct)
  /\ UNCHANGED <<now, tz, state, range, base_params, accounts, bookmark0,
                 writes, points, run>>

\* The date of the last record yielded, as a bookmark; the upper bound when
\* there is none.
LastRecordDate ==
  LET recs == {i \in 1..Len(messages) : "record" \in DOMAIN messages[i]}
  IN  IF recs = {} THEN base_params.until
      ELSE EndTimeHours(
             messages[CHOOSE i \in recs : \A j \in recs : j <= i].record["date"])

\* YieldState with the bookmark written and no state message yielded.
YieldState_without_yield ==
  /\ UNCHANGED nonRunVars
  /\ pc = "state"
  /\ state' = write_bookmark(state, StreamName, bookmark_key, base_params.until)
  /\ writes' = writes + 1
  /\ pc' = "done"
  /\ UNCHANGED <<now, tz, range, base_params, accounts, acct, per,
                 metrics_by_day, pending, messages, written, bookmark0,
                 points, run>>

\* YieldState with the latest record's date as the new bookmark.
YieldState_last_record_date ==
  /\ UNCHANGED nonRunVars
  /\ pc = "state"
  /\ state' = write_bookmark(state, StreamName, bookmark_key, LastRecordDate)
  /\ writes' = writes + 1
  /\ LET message == make_state(state')
     IN  /\ messages' = Append(messages, message)
         /\ written' = Append(written, sync_write(message))
  /\ pc' = "done"
  /\ UNCHANGED <<now, tz, range, base_params, accounts, acct, per,
                 metrics_by_day, pending, bookmark0, points, run>>

\* Lines 219-221: the bookmark is written and the state message yielded; sync
\* writes it and the iteration ends.
YieldState ==
  /\ UNCHANGED nonRunVars
  /\ pc = "state"
  /\ state' = write_bookmark(state, StreamName, bookmark_key, base_params.until)
  /\ writes' = writes + 1
  /\ LET message == make_state(state')
     IN  /\ messages' = Append(messages, message)
         /\ written' = Append(written, sync_write(message))
  /\ pc' = "done"
  /\ UNCHANGED <<now, tz, range, base_params, accounts, acct, per,
                 metrics_by_day, pending, bookmark0, points, run>>

\* The tap is started again, with the state the last run left, at a clock
\* that has not gone backwards.
NextRun ==
  /\ UNCHANGED nonRunVars
  /\ pc \in {"done", "failed"}
  /\ run < MaxRuns
  /\ \E d \in ClockSteps : now' = now + d
  /\ run' = run + 1
  /\ pc' = "start"
  /\ range' = <<>>
  /\ base_params' = <<>>
  /\ acct' = 0
  /\ per' = 1
  /\ metrics_by_day' = EmptyMap
  /\ pending' = <<>>
  /\ messages' = <<>>
  /\ written' = <<>>
  /\ writes' = 0
  /\ points' = 0
  /\ bookmark0' = state
  /\ UNCHANGED <<tz, state, accounts>>

Init ==
  /\ now \in NowSamples
  /\ tz \in LocalOffsets
  /\ state \in InitialStates
  /\ accounts \in {SubSeq(AllAccounts, 1, n) : n \in 0..MaxAccounts}
  /\ pc = "start"
  /\ range = <<>>
  /\ base_params = <<>>
  /\ acct = 0
  /\ per = 1
  /\ metrics_by_day = EmptyMap
  /\ pending = <<>>
  /\ messages = <<>>
  /\ written = <<>>
  /\ bookmark0 = state
  /\ writes = 0
  /\ points = 0
  /\ run = 1
  /\ RetryIdle
  /\ InsightIdle
  /\ MergeIdle
  /\ CallIdle

Next ==
  \/ StartRun
  \/ QueryPeriod
  \/ QueryFails
  \/ EmitRecord
  \/ YieldState
  \/ NextRun

Spec == Init /\ [][Next]_vars

-----------------------------------------------------------------------------
(* build_range on its own: every clock, local timezone and prior bookmark   *)
(* of the sets below, and one step that calls it.                           *)

RangeNows == {24 * d + h : d \in 40..41, h \in 0..23}

RangeOffsets == {-8, 0, 7}

RangeBookmarks ==
  {24 * d + h : d \in {5, 9, 10, 11, 18, 39, 40, 41, 45}, h \in 0..23}

RangeStates ==
  {EmptyMap} \cup
  {write_bookmark(EmptyMap, StreamName, bookmark_key, b) : b \in RangeBookmarks}

InitRange ==
  /\ now \in RangeNows
  /\ tz \in RangeOffsets
  /\ state \in RangeStates
  /\ accounts = <<>>
  /\ pc = "range"
  /\ range = <<>>
  /\ base_params = <<>>
  /\ acct = 0
  /\ per = 1
  /\ metrics_by_day = EmptyMap
  /\ pending = <<>>
  /\ messages = <<>>
  /\ written = <<>>
  /\ bookmark0 = state
  /\ writes = 0
  /\ points = 0
  /\ run = 1
  /\ RetryIdle
  /\ InsightIdle
  /\ MergeIdle
  /\ CallIdle

\* Lines 184-186: request_params calls build_range and renders its bounds.
CallBuildRange ==
  /\ UNCHANGED nonRunVars
  /\ pc = "range"
  /\ range' = build_range
  /\ base_params' = request_params(range')
  /\ pc' = "ranged"
  /\ UNCHANGED <<now, tz, state, accounts, acct, per, metrics_by_day, pending,
                 messages, written, bookmark0, writes, points, run>>

SpecRange == InitRange /\ [][CallBuildRange]_vars

-----------------------------------------------------------------------------
(* should_retry_api_error on its own: every error of FacebookRequestErrors, *)
(* and one step that asks the predicate about it.                           *)

InitClassify ==
  /\ RunIdle
  /\ InsightIdle
  /\ MergeIdle
  /\ CallIdle
  /\ backoff_type = "expo"
  /\ max_tries = 0
  /\ rpc = "classify"
  /\ tries = 0
  /\ fails = 0
  /\ exc \in FacebookRequestErrors
  /\ verdict = FALSE
  /\ retry_log = <<>>
  /\ sleeps = <<>>
  /\ result = "none"

\* Line 86: giveup asks should_retry_api_error about the error caught.
Classify ==
  /\ rpc = "classify"
  /\ verdict' = should_retry_api_error(exc)
  /\ rpc' = "classified"
  /\ UNCHANGED <<backoff_type, max_tries, tries, fails, exc, retry_log,
                 sleeps, result>>
  /\ UNCHANGED nonRetryVars

SpecClassify == InitClassify /\ [][Classify]_vars

-----------------------------------------------------------------------------
(* A call wrapped by retry_pattern: backoff.on_exception (lines 81-88) with *)
(* the giveup of line 86 and the on_backoff handler of lines 30-37.  The    *)
(* call site hands over the wait generator and, in wait_gen_kwargs, may     *)
(* hand over max_tries.                                                     *)

BackoffTypes == {"expo", "constant"}

\* What the wrapped call raises: errors of each verdict of
\* should_retry_api_error, and an exception of another class.
RaisedErrors ==
  {e \in FacebookRequestErrors :
     /\ e.type = "GraphMethodException"
     /\ e.code \in {4, 10, 100, 190}
     /\ e.http_status # TOO_MANY_REQUESTS
     /\ e.message # NotEnoughViewersMessage => e.message[1] = "(#100)"}
  \cup {OtherException}

\* The n-th value of the wait generator (backoff.expo: 1, 2, 4, ...;
\* backoff.constant: 1, 1, 1, ...); jitter=None leaves it as it is.
next_wait(n) == IF backoff_type = "expo" THEN 2 ^ (n - 1) ELSE 1

InitRetry ==
  /\ RunIdle
  /\ InsightIdle
  /\ MergeIdle
  /\ CallIdle
  /\ backoff_type \in BackoffTypes
  /\ max_tries \in 0..MaxCalls
  /\ rpc = "call"
  /\ tries = 0
  /\ fails = 0
  /\ exc = NoExc
  /\ verdict = FALSE
  /\ retry_log = <<>>
  /\ sleeps = <<>>
  /\ result = "none"

\* The wrapped call is invoked and returns.
CallReturns ==
  /\ rpc = "call"
  /\ tries < MaxCalls
  /\ tries' = tries + 1
  /\ rpc' = "returned"
  /\ result' = "value"
  /\ UNCHANGED <<backoff_type, max_tries, fails, exc, verdict, retry_log,
                 sleeps>>
  /\ UNCHANGED nonRetryVars

\* CallRaises with giveup ignored: every error of the class is retried up to
\* max_tries.
CallRaises_ignoring_giveup ==
  /\ rpc = "call"
  /\ tries < MaxCalls
  /\ \E e \in RaisedErrors :
       /\ tries' = tries + 1
       /\ fails' = fails + 1
       /\ exc' = e
       /\ IF e.cls # "FacebookRequestError"
            THEN /\ rpc' = "raised"
                 /\ result' = "error"
                 /\ UNCHANGED <<verdict, retry_log, sleeps>>
            ELSE /\ verdict' = should_retry_api_error(e)
                 /\ IF tries' = max_tries
                      THEN /\ rpc' = "raised"
                           /\ result' = "error"
                           /\ UNCHANGED <<retry_log, sleeps>>
                      ELSE LET seconds == next_wait(Len(sleeps) + 1)
                           IN  /\ retry_log' =
                                    Append(retry_log,
                                           [tries |-> tries', wait |-> seconds])
                               /\ sleeps' = Append(sleeps, seconds)
                               /\ UNCHANGED <<rpc, result>>
  /\ UNCHANGED <<backoff_type, max_tries>>
  /\ UNCHANGED nonRetryVars

\* The wrapped call is invoked and raises.  An exception that is not of the
\* class handed over passes through; for one that is, the loop gives up
\* (re-raises) when giveup says so or this was try number max_tries, and
\* otherwise takes the next wait, calls log_retry_attempt and sleeps.
CallRaises ==
  /\ rpc = "call"
  /\ tries < MaxCalls
  /\ \E e \in RaisedErrors :
       /\ tries' = tries + 1
       /\ fails' = fails + 1
       /\ exc' = e
       /\ IF e.cls # "FacebookRequestError"
            THEN /\ rpc' = "raised"
                 /\ result' = "error"
                 /\ UNCHANGED <<verdict, retry_log, sleeps>>
            ELSE /\ verdict' = should_retry_api_error(e)
                 /\ IF giveup(e) \/ tries' = max_tries
                      THEN /\ rpc' = "raised"
                           /\ result' = "error"
                           /\ UNCHANGED <<retry_log, sleeps>>
                      ELSE LET seconds == next_wait(Len(sleeps) + 1)
                           IN  /\ retry_log' =
                                    Append(retry_log,
                                           [tries |-> tries', wait |-> seconds])
                               /\ sleeps' = Append(sleeps, seconds)
                               /\ UNCHANGED <<rpc, result>>
  /\ UNCHANGED <<backoff_type, max_tries>>
  /\ UNCHANGED nonRetryVars

\* An invocation after the MaxCalls-th, reached only when no max_tries stops
\* the loop: the call raises a retryable error again and the loop takes the
\* next wait, logs and sleeps as in CallRaises.  Invocations beyond MaxCalls
\* are not counted: tries, fails, retry_log and sleeps stay at what they were
\* after the MaxCalls-th.
CallRaisesAgain ==
  /\ rpc = "call"
  /\ tries = MaxCalls
  /\ \E e \in RaisedErrors :
       /\ e.cls = "FacebookRequestError"
       /\ ~giveup(e)
       /\ tries # max_tries
       /\ exc' = e
       /\ verdict' = should_retry_api_error(e)
  /\ UNCHANGED <<backoff_type, max_tries, rpc, tries, fails, retry_log, sleeps,
                 result>>
  /\ UNCHANGED nonRetryVars

NextRetry ==
  \/ CallReturns
  \/ CallRaises
  \/ CallRaisesAgain

SpecRetry == InitRetry /\ [][NextRetry]_vars

\* The loop of backoff runs on the one thread of the tap: a wrapped call that
\* is due is invoked, and a sleep ends.
SpecRetryFair == SpecRetry /\ WF_vars(NextRetry)

-----------------------------------------------------------------------------
(* One run of the media_insights or of the story_insights stream:           *)
(* MediaInsights.__iter__ / StoryInsights.__iter__ driven by the for loop   *)
(* of sync.  MaxItems bounds the media and stories the API lists in a run.  *)

InsightStreams == {"media_insights", "story_insights"}

MediaTypes == <<"IMAGE", "VIDEO", "CAROUSEL_ALBUM">>

media_metrics == <<"engagement", "impressions", "reach", "saved">>

carousel_album_metrics ==
  <<"carousel_album_engagement", "carousel_album_impressions",
    "carousel_album_reach", "carousel_album_saved",
    "carousel_album_video_views">>

story_metrics ==
  <<"exits", "impressions", "reach", "replies", "taps_forward", "taps_back">>

\* Lines 300-306 (media) and line 373 (story): the metrics asked for.
metrics_of(item) ==
  IF kind = "story_insights" THEN story_metrics
  ELSE IF item.media_type = "VIDEO" THEN media_metrics \o <<"video_views">>
  ELSE IF item.media_type = "CAROUSEL_ALBUM" THEN carousel_album_metrics
  ELSE media_metrics

\* The number of media / stories listed so far in the run.
RECURSIVE Listed(_)
Listed(ls) == IF ls = <<>> THEN 0 ELSE Len(Head(ls)) + Listed(Tail(ls))

\* The n-th media / story the API lists in a run.
Item(n) == [id |-> 300 + n, media_type |-> MediaTypes[(n % 3) + 1]]

\* What the API answers to a get_insights call that succeeds: no insight, or
\* one insight per metric asked for, each with one value.
InsightAnswers(names) ==
  {<<>>,
   [i \in 1..Len(names) |-> [name |-> names[i], values |-> <<[value |-> i]>>]]}

\* The errors a get_insights call raises: of either expected signature, of
\* both, of none.
InsightErrors ==
  {e \in FacebookRequestErrors :
     /\ e.type = "GraphMethodException"
     /\ e.http_status = BAD_REQUEST
     /\ ~e.transient
     /\ e.code \in {10, 100, 190}
     /\ e.subcode \in {0, 2108006}
     /\ (e.code = 10) = (e.message[1] = "(#10)")
     /\ (e.code = 190) => (e.subcode = 0)}

ApiOutcomes(names) ==
  {Returned(a) : a \in InsightAnswers(names)}
    \cup {Raised(e) : e \in InsightErrors}

\* The dict comprehension of lines 310 and 374: name -> first value, a later
\* insight of the same name replacing an earlier one.
insights_dict(insights) ==
  [n \in {insights[i].name : i \in DOMAIN insights} |->
     LET last == CHOOSE i \in DOMAIN insights :
                   /\ insights[i].name = n
                   /\ \A j \in DOMAIN insights : insights[j].name = n => j <= i
     IN  insights[last].values[1].value]

\* dict.update(u): the keys of u are set in d.
dict_update(d, u) == u @@ d

\* MediaInsights.get_insights answering the error of subcode 2108006 with an
\* empty dict, as StoryInsights.get_insights answers its expected error.
media_get_insights_returning_empty(outcome) ==
  IF ~outcome.raised THEN Returned(insights_dict(outcome.value))
  ELSE IF outcome.value.subcode = 2108006 THEN Returned(EmptyMap)
  ELSE Raised(outcome.value)

\* MediaInsights.get_insights, lines 308-324, given what the API call did.
media_get_insights(outcome) ==
  IF ~outcome.raised THEN Returned(insights_dict(outcome.value))
  ELSE IF outcome.value.subcode = 2108006 THEN Returned(None)
  ELSE Raised(outcome.value)

\* StoryInsights.get_insights raising every error of the API call again.
story_get_insights_reraising(outcome) ==
  IF ~outcome.raised THEN Returned(insights_dict(outcome.value))
  ELSE Raised(outcome.value)

\* StoryInsights.get_insights, lines 372-379, given what the API call did.
story_get_insights(outcome) ==
  IF ~outcome.raised THEN Returned(insights_dict(outcome.value))
  ELSE IF outcome.value.code = 10 THEN Returned(EmptyMap)
  ELSE Raised(outcome.value)

\* Lines 290-296 and 360-366.
insight_record(insights, item, account) ==
  dict_update(insights,
              ("id" :> item.id)
                @@ ("page_id" :> account.page_id)
                @@ ("business_account_id" :> account.id))

\* Where the iteration stands when the list of account a is left: at the
\* next account of the outer loop, or at its end.
AfterList(a) ==
  /\ ipos' = 0
  /\ ipc' = IF a < Len(api_accounts) THEN "account" ELSE "done"

\* Where the iteration stands after the item at ipos is dealt with.
AfterItem ==
  IF ipos < Len(lists[iacct])
    THEN /\ ipos' = ipos + 1
         /\ UNCHANGED ipc
    ELSE AfterList(iacct)

\* Lines 281-285 and 352-355: the next account; get_media / get_stories
\* returns its list, newest first.
ListItems ==
  /\ ipc = "account"
  /\ \E n \in 0..(MaxItems - Listed(lists)) :
       /\ lists' = Append(lists, [i \in 1..n |-> Item(Listed(lists) + i)])
       /\ iacct' = iacct + 1
       /\ IF n > 0
            THEN /\ ipc' = "item"
                 /\ ipos' = 1
            ELSE AfterList(iacct + 1)
  /\ UNCHANGED <<kind, api_accounts, calls, yielded, raised>>
  /\ UNCHANGED nonInsightVars

\* Lines 284 and 354: get_media / get_stories raises; nothing catches it.
ListFails ==
  /\ ipc = "account"
  /\ \E e \in InsightErrors : raised' = e
  /\ ipc' = "list_raised"
  /\ UNCHANGED <<kind, api_accounts, iacct, lists, ipos, calls, yielded>>
  /\ UNCHANGED nonInsightVars

\* MediaInsights.__iter__ with the break on None leaving both loops: the
\* iteration ends at the first error of subcode 2108006.
MediaInsightsStep_ending_iteration ==
  /\ ipc = "item"
  /\ kind = "media_insights"
  /\ LET ig_media == lists[iacct][ipos]
     IN  \E outcome \in ApiOutcomes(metrics_of(ig_media)) :
           LET insights == media_get_insights(outcome)
           IN  /\ calls' = Append(calls, [account |-> iacct, pos |-> ipos,
                                          outcome |-> outcome])
               /\ IF insights.raised
                    THEN /\ raised' = insights.value
                         /\ ipc' = "raised"
                         /\ UNCHANGED <<ipos, yielded>>
                    ELSE IF insights.value = None
                      THEN /\ ipos' = 0
                           /\ ipc' = "done"
                           /\ UNCHANGED <<yielded, raised>>
                      ELSE /\ yielded' =
                                Append(yielded,
                                       make_record(
                                         insight_record(insights.value, ig_media,
                                                        api_accounts[iacct])))
                           /\ AfterItem
                           /\ UNCHANGED raised
  /\ UNCHANGED <<kind, api_accounts, iacct, lists>>
  /\ UNCHANGED nonInsightVars

\* Lines 285-297: get_insights for the next media of the list, then break,
\* or the record yielded, or the error raised out of __iter__.
MediaInsightsStep ==
  /\ ipc = "item"
  /\ kind = "media_insights"
  /\ LET ig_media == lists[iacct][ipos]
     IN  \E outcome \in ApiOutcomes(metrics_of(ig_media)) :
           LET insights == media_get_insights(outcome)
           IN  /\ calls' = Append(calls, [account |-> iacct, pos |-> ipos,
                                          outcome |-> outcome])
               /\ IF insights.raised
                    THEN /\ raised' = insights.value
                         /\ ipc' = "raised"
                         /\ UNCHANGED <<ipos, yielded>>
                    ELSE IF insights.value = None
                      THEN /\ AfterList(iacct)
                           /\ UNCHANGED <<yielded, raised>>
                      ELSE /\ yielded' =
                                Append(yielded,
                                       make_record(
                                         insight_record(insights.value, ig_media,
                                                        api_accounts[iacct])))
                           /\ AfterItem
                           /\ UNCHANGED raised
  /\ UNCHANGED <<kind, api_accounts, iacct, lists>>
  /\ UNCHANGED nonInsightVars

\* Lines 355-367: get_insights for the next story of the list, then continue
\* on a falsy answer, or the record yielded, or the error raised out of
\* __iter__.
StoryInsightsStep ==
  /\ ipc = "item"
  /\ kind = "story_insights"
  /\ LET story == lists[iacct][ipos]
     IN  \E outcome \in ApiOutcomes(metrics_of(story)) :
           LET insights == story_get_insights(outcome)
           IN  /\ calls' = Append(calls, [account |-> iacct, pos |-> ipos,
                                          outcome |-> outcome])
               /\ IF insights.raised
                    THEN /\ raised' = insights.value
                         /\ ipc' = "raised"
                         /\ UNCHANGED <<ipos, yielded>>
                    ELSE IF insights.value = None \/ insights.value = EmptyMap
                      THEN /\ AfterItem
                           /\ UNCHANGED <<yielded, raised>>
                      ELSE /\ yielded' =
                                Append(yielded,
                                       make_record(
                                         insight_record(insights.value, story,
                                                        api_accounts[iacct])))
                           /\ AfterItem
                           /\ UNCHANGED raised
  /\ UNCHANGED <<kind, api_accounts, iacct, lists>>
  /\ UNCHANGED nonInsightVars

InitInsights ==
  /\ RunIdle
  /\ RetryIdle
  /\ MergeIdle
  /\ CallIdle
  /\ kind \in InsightStreams
  /\ api_accounts \in {SubSeq(AllAccounts, 1, n) : n \in 0..MaxAccounts}
  /\ ipc = (IF api_accounts = <<>> THEN "done" ELSE "account")
  /\ iacct = 0
  /\ lists = <<>>
  /\ ipos = 0
  /\ calls = <<>>
  /\ yielded = <<>>
  /\ raised = NoExc

NextInsights ==
  \/ ListItems
  \/ ListFails
  \/ MediaInsightsStep
  \/ StoryInsightsStep

SpecInsights == InitInsights /\ [][NextInsights]_vars

-----------------------------------------------------------------------------
(* The reconciliation of the periods of one account (lines 195-217) on its  *)
(* own: what the API returns for each period, the order in which the        *)
(* periods are iterated (that of period_to_metrics in the code), and one    *)
(* step that merges them and yields the records.  MaxValues bounds the      *)
(* values the API returns for the account.                                  *)

MergeValues == {1, 2}

\* The metric names of SampleNames in a fixed order.
NameOrder == <<"follower_count", "impressions", "online_followers">>

\* A value the API can return: for a period, of a metric asked for in that
\* period, at an end_time.
Slots ==
  UNION {{<<Periods[p], n, e>> :
            n \in period_to_metrics[Periods[p]] \cap SampleNames,
            e \in EndTimes} : p \in DOMAIN Periods}

\* The response of get_insights for a period, given the values v the API
\* holds (slot -> value): one object per metric that has values, each with
\* its values by end_time.
ResponseOf(period, v) ==
  LET has(n) == \E e \in EndTimes : <<period, n, e>> \in DOMAIN v
      names == SelectSeq(NameOrder, has)
      times(n) == sorted({e \in EndTimes : <<period, n, e>> \in DOMAIN v})
  IN  [i \in DOMAIN names |->
         [name |-> names[i],
          values |-> [j \in DOMAIN times(names[i]) |->
                        [end_time |-> times(names[i])[j],
                         value |-> v[<<period, names[i], times(names[i])[j]>>]]]]]

\* What the API can return for the periods of one account.
AccountResults ==
  {[period \in {Periods[p] : p \in DOMAIN Periods} |-> ResponseOf(period, v)] :
     v \in UNION {[S -> MergeValues] :
                    S \in {T \in SUBSET Slots : Cardinality(T) <= MaxValues}}}

\* The orders in which four periods can be iterated.
PeriodOrders ==
  {o \in [1..Len(Periods) -> {Periods[p] : p \in DOMAIN Periods}] :
     \A i, j \in DOMAIN o : i # j => o[i] # o[j]}

\* Lines 196-208: the loop over the periods, in the order ord.
RECURSIVE merge_periods(_, _, _)
merge_periods(mbd, ord, res) ==
  IF ord = <<>> THEN mbd
  ELSE merge_periods(merge_insights(mbd, Head(ord), res[Head(ord)]),
                     Tail(ord), res)

\* Lines 195-217 for one account: the messages it yields.
account_records(ord, res, account) ==
  LET mbd == merge_periods(EmptyMap, ord, res)
      days == sorted(DOMAIN mbd)
  IN  [i \in DOMAIN days |-> make_record(day_record_of(mbd, account, days[i]))]

InitMerge ==
  /\ RunIdle
  /\ RetryIdle
  /\ InsightIdle
  /\ CallIdle
  /\ results \in AccountResults
  /\ order \in PeriodOrders
  /\ maccount \in 1..MaxAccounts
  /\ mpc = "merge"
  /\ emitted = <<>>

\* Lines 195-217.
ReconcileAccount ==
  /\ mpc = "merge"
  /\ emitted' = account_records(order, results, AllAccounts[maccount])
  /\ mpc' = "emitted"
  /\ UNCHANGED <<results, order, maccount>>
  /\ UNCHANGED nonMergeVars

SpecMerge == InitMerge /\ [][ReconcileAccount]_vars

-----------------------------------------------------------------------------
(* Stream.fields (streams.py, lines 45-55) on its own: a catalog entry of   *)
(* up to MaxEntries metadata entries, the base_properties of a stream       *)
(* class, and one step that calls it.                                       *)

\* Breadcrumbs of singer metadata: the root, properties, nested properties.
Breadcrumbs ==
  {<<>>,
   <<"properties", "id">>,
   <<"properties", "media_url">>,
   <<"properties", "page_id">>,
   <<"properties", "children", "properties", "id">>}

\* The metadata of an entry: "selected" true, false or not there,
\* "inclusion" automatic, available or not there.
Datas ==
  {EmptyMap}
    \cup [selected : BOOLEAN]
    \cup [inclusion : {"automatic", "available"}]
    \cup [selected : BOOLEAN, inclusion : {"automatic", "available"}]

\* singer.metadata.to_map(catalog_entry.metadata): breadcrumb -> metadata.
MetadataMaps ==
  UNION {[S -> Datas] :
           S \in {T \in SUBSET Breadcrumbs : Cardinality(T) <= MaxEntries}}

\* The base_properties of the stream classes.
BaseProperties ==
  {{}, {"page_id", "business_account_id"},
   {"id", "page_id", "business_account_id"}}

\* Lines 49-54: the loop over props.items().
RECURSIVE fields_loop(_, _, _)
fields_loop(props, todo, fields_so_far) ==
  IF todo = {} THEN fields_so_far
  ELSE LET breadcrumb == CHOOSE b \in todo : TRUE
           data == props[breadcrumb]
       IN  fields_loop(
             props, todo \ {breadcrumb},
             IF Len(breadcrumb) # 2 THEN fields_so_far
             ELSE IF \/ ("selected" \in DOMAIN data /\ data["selected"])
                     \/ ("inclusion" \in DOMAIN data
                         /\ data["inclusion"] = "automatic")
               THEN fields_so_far \cup {breadcrumb[2]}
               ELSE fields_so_far)

\* Stream.fields without the difference of line 55.
fields_without_difference(catalog_entry, base_properties) ==
  IF catalog_entry = None THEN {}
  ELSE fields_loop(catalog_entry.metadata, DOMAIN catalog_entry.metadata, {})

\* Stream.fields.
fields(catalog_entry, base_properties) ==
  (IF catalog_entry = None THEN {}
   ELSE fields_loop(catalog_entry.metadata, DOMAIN catalog_entry.metadata, {}))
    \ base_properties

InitFields ==
  /\ RunIdle
  /\ RetryIdle
  /\ InsightIdle
  /\ MergeIdle
  /\ fn = "fields"
  /\ args \in [catalog_entry : {None} \cup [metadata : MetadataMaps],
               base_properties : BaseProperties]
  /\ cpc = "call"
  /\ ret = Returned(None)

CallFields ==
  /\ cpc = "call"
  /\ fn = "fields"
  /\ ret' = Returned(fields(args.catalog_entry, args.base_properties))
  /\ cpc' = "returned"
  /\ UNCHANGED <<fn, args>>
  /\ UNCHANGED nonCallVars

SpecFields == InitFields /\ [][CallFields]_vars

-----------------------------------------------------------------------------
(* remove_params_from_url on its own: a URL of up to MaxParams query        *)
(* parameters, a list of keys, and one step that calls it.                  *)

UrlBase == <<"https://x/y">>

UrlKeys == {"a", "b", "_nc_sid", "ccb"}

\* A piece of a query: a key alone, with an empty value, with a value, with
\* a value that holds a "=".
QueryPieces ==
  {<<k>> : k \in UrlKeys}
    \cup {<<k, "=">> : k \in UrlKeys}
    \cup {<<k, "=", "1">> : k \in UrlKeys}
    \cup {<<k, "=", "1", "=">> : k \in UrlKeys}

\* A URL as it is built: with or without a "?", and the pieces after it.
UrlParts(n) ==
  {[query |-> FALSE, pieces |-> <<>>]}
    \cup UNION {[query : {TRUE}, pieces : [1..m -> QueryPieces]] : m \in 0..n}

\* The URL string of the parts.
UrlOf(parts) ==
  IF parts.query THEN UrlBase \o <<"?">> \o join("&", parts.pieces)
  ELSE UrlBase

\* Lists of keys to remove.
KeyLists == {<<>>, <<<<"_nc_sid">>>>, <<<<"zz">>>>, BlockedKeys}

InitUrl ==
  /\ RunIdle
  /\ RetryIdle
  /\ InsightIdle
  /\ MergeIdle
  /\ fn = "remove_params_from_url"
  /\ args \in {[url |-> UrlOf(parts), params |-> params, parts |-> parts] :
                 parts \in UrlParts(MaxParams), params \in KeyLists}
  /\ cpc = "call"
  /\ ret = Returned(None)

CallRemoveParams ==
  /\ cpc = "call"
  /\ fn = "remove_params_from_url"
  /\ ret' = remove_params_from_url(args.url, args.params)
  /\ cpc' = "returned"
  /\ UNCHANGED <<fn, args>>
  /\ UNCHANGED nonCallVars

SpecUrl == InitUrl /\ [][CallRemoveParams]_vars

-----------------------------------------------------------------------------
(* Stream.make_record on its own: a record with or without media_url and    *)
(* profile_picture_url, and one step that calls it.                         *)

\* URLs of up to two parameters, each with a value.
RecordUrls ==
  {UrlOf(parts) :
     parts \in {pt \in UrlParts(2) :
                  \A i \in DOMAIN pt.pieces : Len(pt.pieces[i]) = 3}}

\* The records: each URL field not there, empty, or a URL.
Records ==
  {("id" :> 1) @@ m @@ q :
     m \in {EmptyMap} \cup {("media_url" :> u) : u \in RecordUrls \cup {<<>>}},
     q \in {EmptyMap}
             \cup {("profile_picture_url" :> u) : u \in RecordUrls \cup {<<>>}}}

InitRecord ==
  /\ RunIdle
  /\ RetryIdle
  /\ InsightIdle
  /\ MergeIdle
  /\ fn = "make_record"
  /\ args \in [record : Records]
  /\ cpc = "call"
  /\ ret = Returned(None)

CallMakeRecord ==
  /\ cpc = "call"
  /\ fn = "make_record"
  /\ ret' = make_record_call(args.record)
  /\ cpc' = "returned"
  /\ UNCHANGED <<fn, args>>
  /\ UNCHANGED nonCallVars

SpecRecord == InitRecord /\ [][CallMakeRecord]_vars

-----------------------------------------------------------------------------
(* sync, get_selected_streams and init_stream (__init__.py): a catalog of   *)
(* up to MaxStreams entries and one step that syncs it.  What a stream      *)
(* yields while sync iterates it is the matter of the specifications        *)
(* above; here each stream that is initialised has its schema written and   *)
(* its iteration ends normally.                                             *)

\* STREAM_CLS, lines 19-27, in the order of the dict, each class with
\* whether it is an IncrementalStream.
STREAM_CLS ==
  <<[name |-> "users", incremental |-> FALSE],
    [name |-> "user_lifetime_insights", incremental |-> FALSE],
    [name |-> "user_insights", incremental |-> TRUE],
    [name |-> "media", incremental |-> FALSE],
    [name |-> "media_insights", incremental |-> FALSE],
    [name |-> "stories", incremental |-> FALSE],
    [name |-> "story_insights", incremental |-> FALSE]>>

\* The names a catalog entry carries as tap_stream_id and as stream: some of
\* STREAM_CLS and one that is not.
CatalogNames == {"users", "user_insights", "story_insights", "foo"}

Catalogs ==
  UNION {[1..n -> [tap_stream_id : CatalogNames, stream : CatalogNames]] :
           n \in 0..MaxStreams}

\* Line 90: the first entry of the catalog with the tap_stream_id, or None.
find_entry(catalog, avail_stream) ==
  LET hits == {i \in DOMAIN catalog : catalog[i].tap_stream_id = avail_stream}
  IN  IF hits = {} THEN None
      ELSE catalog[CHOOSE i \in hits : \A j \in hits : i <= j]

\* init_stream, lines 51-62.
init_stream(catalog_entry) ==
  LET name == catalog_entry.stream
      known == {k \in DOMAIN STREAM_CLS : STREAM_CLS[k].name = name}
  IN  IF known # {}
        THEN Returned([name |-> name,
                       incremental |-> STREAM_CLS[CHOOSE k \in known : TRUE]
                                         .incremental,
                       catalog_entry |-> catalog_entry])
        ELSE Raised("InstagramTapException")

\* sync, lines 101-128, over get_selected_streams, lines 88-92, from the
\* k-th name of STREAM_CLS on: the catalog is looked at only through the
\* names of STREAM_CLS; the schema of each stream that is yielded is written;
\* an error of init_stream leaves sync after the streams before it were
\* synced.
RECURSIVE sync_from(_, _, _)
sync_from(k, catalog, schemas_written) ==
  IF k > Len(STREAM_CLS) THEN Returned(schemas_written)
  ELSE LET catalog_entry == find_entry(catalog, STREAM_CLS[k].name)
       IN  IF catalog_entry = None
             THEN sync_from(k + 1, catalog, schemas_written)
             ELSE LET stream == init_stream(catalog_entry)
                  IN  IF stream.raised
                        THEN Raised([error |-> stream.value,
                                     written |-> schemas_written])
                        ELSE sync_from(
                               k + 1, catalog,
                               Append(schemas_written,
                                      [type |-> "SCHEMA",
                                       stream |-> stream.value.name]))

sync(catalog) == sync_from(1, catalog, <<>>)

InitSync ==
  /\ RunIdle
  /\ RetryIdle
  /\ InsightIdle
  /\ MergeIdle
  /\ fn = "sync"
  /\ args \in [catalog : Catalogs]
  /\ cpc = "call"
  /\ ret = Returned(None)

CallSync ==
  /\ cpc = "call"
  /\ fn = "sync"
  /\ ret' = sync(args.catalog)
  /\ cpc' = "returned"
  /\ UNCHANGED <<fn, args>>
  /\ UNCHANGED nonCallVars

SpecSync == InitSync /\ [][CallSync]_vars

-----------------------------------------------------------------------------
(* Properties. *)

IsRecord(m) == "record" \in DOMAIN m
IsState(m) == "state" \in DOMAIN m

StateMessages == {i \in 1..Len(messages) : IsState(messages[i])}
RecordMessages == {i \in 1..Len(messages) : IsRecord(messages[i])}

\* C1: a run of user_insights that completes has yielded exactly one State
\* message, as its last message, with every Record message before it; a run
\* that has not completed has yielded no State message; sync has written one
\* line per message, of the same kind.
C1_StateMessageIsLast ==
  /\ pc = "done" =>
       /\ messages # <<>>
       /\ StateMessages = {Len(messages)}
  /\ pc # "done" => StateMessages = {}
  /\ Len(written) = Len(messages)
  /\ \A i \in 1..Len(messages) :
       written[i].type = (IF IsState(messages[i]) THEN "STATE" ELSE "RECORD")

\* A run over two accounts, each with a record, has completed.
C1_Witness ==
  /\ pc = "done"
  /\ Len(accounts) = 2
  /\ \E i, j \in RecordMessages :
       messages[i].record["page_id"] # messages[j].record["page_id"]

\* C2 as stated: every Record message of a run has a date greater than or
\* equal to that of the Record message before it, over all accounts.
C2_OrderedOverTheRun ==
  \A i \in 1..(Len(messages) - 1) :
    (IsRecord(messages[i]) /\ IsRecord(messages[i + 1])) =>
      ~str_less(messages[i + 1].record["date"], messages[i].record["date"])

\* C2 amended: every Record message has a date greater than or equal to that
\* of the Record message before it when both are of the same account.
C2_OrderedWithinAccount ==
  \A i \in 1..(Len(messages) - 1) :
    (/\ IsRecord(messages[i])
     /\ IsRecord(messages[i + 1])
     /\ messages[i].record["business_account_id"]
          = messages[i + 1].record["business_account_id"]) =>
      ~str_less(messages[i + 1].record["date"], messages[i].record["date"])

\* Two records of one account have been yielded one after the other.
C2_Witness ==
  \E i \in 1..(Len(messages) - 1) :
    /\ IsRecord(messages[i])
    /\ IsRecord(messages[i + 1])
    /\ messages[i].record["business_account_id"]
         = messages[i + 1].record["business_account_id"]
    /\ messages[i].record["date"] # messages[i + 1].record["date"]

\* C3: a run that an upstream error has ended has yielded no State message
\* and left the bookmark store as it was at the start; the store is written
\* at most once in a run, only by the step that ends it, and it is unchanged
\* for as long as accounts are queried and records yielded.
C3_NoPartialBookmark ==
  /\ pc = "failed" =>
       /\ StateMessages = {}
       /\ state = bookmark0
       /\ writes = 0
  /\ writes = (IF pc = "done" THEN 1 ELSE 0)
  /\ pc \in {"start", "query", "emit", "state"} => state = bookmark0

\* The query of a later period of the second account has failed after
\* records of the first account were yielded.
C3_Witness ==
  /\ pc = "failed"
  /\ acct = 2
  /\ per > 1
  /\ RecordMessages # {}

\* C4 as stated: the bookmark a run emits is greater than or equal to the
\* bookmark it read at its start, whatever the prior state.
C4_BookmarkNeverDecreases ==
  (pc = "done" /\ StoredBookmark(bookmark0) # <<>>) =>
    StoredBookmark(state)[1] >= StoredBookmark(bookmark0)[1]

\* C5: build_range returns a lower bound that is not later than its upper
\* bound.
C5_LowerNotAfterUpper ==
  pc = "ranged" => range[1].inst <= range[2].inst

\* build_range has been called with a stored bookmark later than the upper
\* bound.
C5_Witness ==
  /\ pc = "ranged"
  /\ get_bookmark # None
  /\ get_bookmark.inst > range[2].inst

\* C6 as stated: the upper bound build_range returns is midnight of
\* yesterday, today() less one day, and is sent as such in "until".
C6_UpperIsYesterday ==
  pc = "ranged" =>
    /\ to_datetime_string(range[2])
         = to_datetime_string(subtract_days(today(tz), 1))
    /\ base_params.until = to_datetime_string(range[2])

\* C7: the bookmark of the State message that ends a run is the upper bound
\* of the window computed at the start of the run, rendered as request_params
\* rendered it, whatever records were yielded.
C7_BookmarkIsUpperBound ==
  pc = "done" =>
    /\ IsState(messages[Len(messages)])
    /\ StoredBookmark(messages[Len(messages)].state)
         = <<to_datetime_string(range[2])>>
    /\ StoredBookmark(state) = <<base_params.until>>

\* A run has ended after yielding a record dated before the upper bound and
\* a record dated after it.
C7_Witness ==
  /\ pc = "done"
  /\ \E i, j \in RecordMessages :
       /\ EndTimeHours(messages[i].record["date"]) < base_params.until
       /\ EndTimeHours(messages[j].record["date"]) > base_params.until

\* Whether the words of needle occur in message, one after the other.
Contains(message, needle) ==
  \E i \in 1..(Len(message) - Len(needle) + 1) :
    SubSeq(message, i, i + Len(needle) - 1) = needle

Rule1(e) == e.type = "OAuthException" /\ e.code \in {1, 2, 4, 17, 341, 368}
Rule2(e) == e.code \in {4, 17, 32, 613}
Rule3(e) == e.http_status = 429
Rule4Contains(e) ==
  e.code = 10 /\ Contains(e.message, <<"Not", "enough", "viewers">>)
Rule4Exact(e) == e.code = 10 /\ e.message = NotEnoughViewersMessage
Rule5(e) == e.http_status = 400 /\ e.code = 100 /\ e.subcode = 33
Rule6(e) == e.transient
Rule7(e) == e.subcode = 2108006

\* The decision table of section 4.2, first match wins, with rule 4 as given.
DecisionTable(e, rule4) ==
  CASE Rule1(e) -> "Retryable"
    [] ~Rule1(e) /\ Rule2(e) -> "Retryable"
    [] ~Rule1(e) /\ ~Rule2(e) /\ Rule3(e) -> "Retryable"
    [] ~Rule1(e) /\ ~Rule2(e) /\ ~Rule3(e) /\ rule4 -> "ExpectedEmpty"
    [] ~Rule1(e) /\ ~Rule2(e) /\ ~Rule3(e) /\ ~rule4 /\ Rule5(e) -> "Retryable"
    [] ~Rule1(e) /\ ~Rule2(e) /\ ~Rule3(e) /\ ~rule4 /\ ~Rule5(e) /\ Rule6(e)
         -> "Retryable"
    [] ~Rule1(e) /\ ~Rule2(e) /\ ~Rule3(e) /\ ~rule4 /\ ~Rule5(e) /\ ~Rule6(e)
         /\ Rule7(e) -> "ExpectedEmpty"
    [] OTHER -> "Fatal"

\* C8 as stated: the retry predicate answers Retryable exactly when the
\* decision table of section 4.2 does, rule 4 matching any message that
\* contains "Not enough viewers".
C8_PredicateIsTheTable ==
  rpc = "classified" =>
    (verdict <=> DecisionTable(exc, Rule4Contains(exc)) = "Retryable")

\* C8 amended: the retry predicate answers Retryable exactly when the
\* decision table does with rule 4 matching the one message
\* "(#10) Not enough viewers for the media to show insights"; an error with
\* subcode 2108006 that matches no earlier rule is not retried.
C8_PredicateIsTheTableExactMessage ==
  rpc = "classified" =>
    (verdict <=> DecisionTable(exc, Rule4Exact(exc)) = "Retryable")

\* The predicate has been asked about an error of subcode 33 with status 400
\* and code 100 that no earlier rule matches and that is not transient.
C8_Witness ==
  /\ rpc = "classified"
  /\ Rule5(exc)
  /\ ~Rule1(exc) /\ ~Rule2(exc) /\ ~Rule3(exc) /\ ~Rule6(exc)
  /\ verdict

\* C9 as stated: an error of code 10 whose message contains "Not enough
\* viewers" and that matches none of rules 1-3 is not retried.
C9_NotEnoughViewersContained ==
  (/\ rpc = "classified"
   /\ Rule4Contains(exc)
   /\ ~Rule1(exc) /\ ~Rule2(exc) /\ ~Rule3(exc)) => ~verdict

\* C9 amended: an error of code 10 whose message is exactly
\* "(#10) Not enough viewers for the media to show insights" and that matches
\* none of rules 1-3 is not retried, whatever its transient flag, status and
\* subcode.
C9_NotEnoughViewersExact ==
  (/\ rpc = "classified"
   /\ Rule4Exact(exc)
   /\ ~Rule1(exc) /\ ~Rule2(exc) /\ ~Rule3(exc)) => ~verdict

\* The predicate has been asked about such an error with the transient flag
\* set, status 400 and subcode 33.
C9_Witness ==
  /\ rpc = "classified"
  /\ Rule4Exact(exc)
  /\ ~Rule1(exc) /\ ~Rule2(exc) /\ ~Rule3(exc)
  /\ exc.transient
  /\ exc.http_status = 400
  /\ exc.subcode = 33

NonRetryable(e) == e.cls # "FacebookRequestError" \/ ~should_retry_api_error(e)

\* C10: an invocation that raises a non-retryable error is the last one, its
\* error reaches the caller and no wait follows it (a first invocation that
\* does so is the only one); when an invocation returns after k invocations
\* that raised, the caller gets its value, it was invocation k + 1, and
\* log_retry_attempt has logged k attempts, numbered 1..k, each with the
\* wait slept after it.
C10_RetryLoop ==
  /\ (exc # NoExc /\ NonRetryable(exc)) =>
       /\ rpc = "raised"
       /\ result = "error"
       /\ tries = fails
       /\ Len(sleeps) = fails - 1
       /\ Len(retry_log) = fails - 1
  /\ rpc = "returned" =>
       /\ result = "value"
       /\ tries = fails + 1
       /\ Len(retry_log) = fails
       /\ Len(sleeps) = fails
       /\ \A i \in 1..fails :
            /\ retry_log[i].tries = i
            /\ retry_log[i].wait = sleeps[i]

\* The wrapped call has returned at its third invocation, after two that
\* raised retryable errors.
C10_Witness ==
  /\ rpc = "returned"
  /\ fails = 2
  /\ tries = 3
  /\ ~NonRetryable(exc)

\* C11 as stated: a wrapped call is invoked at most max_tries times where the
\* call site gave a max_tries, a retryable error reaches the caller only at
\* invocation number max_tries, and the retry loop ends at some time, by a
\* return or by an error raised to the caller, whether or not the call site
\* gave a max_tries.
C11_RetryLoopTerminates ==
  /\ [](max_tries > 0 => tries <= max_tries)
  /\ []((rpc = "raised" /\ ~NonRetryable(exc)) => tries = max_tries)
  /\ <>(rpc \in {"returned", "raised"})

\* The ids of the media / stories a record has been yielded for.
YieldedIds == {yielded[i].record["id"] : i \in DOMAIN yielded}

ConversionError(c) == c.outcome.raised /\ c.outcome.value.subcode = 2108006
ViewersError(c) == c.outcome.raised /\ c.outcome.value.code = 10

\* C12: in media_insights, once the insight call for the media at position i
\* of an account's list has failed with subcode 2108006, no insight call is
\* ever made for a later position of that list, no record is yielded for the
\* media at i or at a later position, and exactly one record has been yielded
\* for each media before i (for [A, B] with A failing: none, and B is never
\* queried).
C12_MediaStopsAtConversionError ==
  kind = "media_insights" =>
    \A k \in DOMAIN calls :
      LET c == calls[k]
          list == lists[c.account]
      IN  ConversionError(c) =>
            /\ \A k2 \in DOMAIN calls :
                 calls[k2].account = c.account => calls[k2].pos <= c.pos
            /\ \A j \in c.pos..Len(list) : list[j].id \notin YieldedIds
            /\ \A j \in 1..(c.pos - 1) :
                 Cardinality({i \in DOMAIN yielded :
                                yielded[i].record["id"] = list[j].id}) = 1

\* A media_insights run has ended in which the second of three media of an
\* account failed with subcode 2108006.
C12_Witness ==
  /\ kind = "media_insights"
  /\ ipc = "done"
  /\ \E k \in DOMAIN calls :
       /\ ConversionError(calls[k])
       /\ calls[k].pos = 2
       /\ Len(lists[calls[k].account]) = 3

\* The two expected signatures of section 4.2 (rules 4 and 7).
ExpectedEmpty(e) == Rule4Contains(e) \/ Rule7(e)

\* C13 as stated: the iteration of media_insights or story_insights never
\* raises an error of an expected signature (code 10 with a "Not enough
\* viewers" message, or subcode 2108006) that an insight call failed with.
C13_ExpectedEmptyNeverRaised ==
  ipc = "raised" => ~ExpectedEmpty(raised)

HasData(c) == ~c.outcome.raised /\ c.outcome.value # <<>>

\* C20: in story_insights, the records yielded are those of the stories whose
\* insight call returned data, one each, in the order of the calls; an
\* insight call that failed with code 10 yields no record and does not end
\* the iteration, which goes on with the next story of the list; a run that
\* has ended normally has made one insight call for every story listed, in
\* the order listed.
C20_StoryViewersErrorSkipsOne ==
  kind = "story_insights" =>
    /\ LET data == SelectSeq(calls, HasData)
       IN  /\ Len(yielded) = Len(data)
           /\ \A i \in DOMAIN yielded :
                /\ yielded[i].record["id"]
                     = lists[data[i].account][data[i].pos].id
                /\ yielded[i].record["business_account_id"]
                     = api_accounts[data[i].account].id
                /\ \A m \in DOMAIN data[i].outcome.value :
                     yielded[i].record[data[i].outcome.value[m].name]
                       = data[i].outcome.value[m].values[1].value
    /\ \A k \in DOMAIN calls :
         LET c == calls[k]
         IN  ViewersError(c) =>
               /\ k = Len(calls) => ipc # "raised"
               /\ (k = Len(calls) /\ c.pos < Len(lists[c.account])) =>
                    /\ ipc = "item"
                    /\ iacct = c.account
                    /\ ipos = c.pos + 1
               /\ (k < Len(calls) /\ c.pos < Len(lists[c.account])) =>
                    /\ calls[k + 1].account = c.account
                    /\ calls[k + 1].pos = c.pos + 1
    /\ ipc = "done" =>
         /\ Len(lists) = Len(api_accounts)
         /\ Len(calls) = Listed(lists)
         /\ \A k \in 1..(Len(calls) - 1) :
              \/ calls[k].account < calls[k + 1].account
              \/ /\ calls[k].account = calls[k + 1].account
                 /\ calls[k + 1].pos = calls[k].pos + 1

\* A story_insights run has ended in which the first of three stories of an
\* account failed with code 10 and the two after it returned data.
C20_Witness ==
  /\ kind = "story_insights"
  /\ ipc = "done"
  /\ \E k \in DOMAIN calls :
       /\ ViewersError(calls[k])
       /\ calls[k].pos = 1
       /\ Len(lists[calls[k].account]) = 3
       /\ k + 2 <= Len(calls)
       /\ HasData(calls[k + 1])
       /\ HasData(calls[k + 2])

\* The key a metric of a period is to be found under (section 4.5).
SuffixedKey(period, name) ==
  IF period = "week" THEN name \o "_week"
  ELSE IF period = "days_28" THEN name \o "_days_28"
  ELSE name

\* Every value the period queries of the account returned, with the key it
\* is to be found under.
Collected ==
  UNION {UNION {{[key |-> SuffixedKey(p, results[p][i].name),
                  end_time |-> results[p][i].values[j].end_time,
                  value |-> results[p][i].values[j].value] :
                   j \in DOMAIN results[p][i].values} :
                  i \in DOMAIN results[p]} :
           p \in DOMAIN results}

\* C14: the records yielded for an account are one per distinct end_time the
\* period queries returned, and the record of an end_time holds exactly
\* every metric key collected for it from all periods, with its value (week
\* and 28-day metrics under the suffixed key), and page_id,
\* business_account_id and date.
C14_OneRecordPerEndTime ==
  (mpc = "emitted" /\ order = Periods) =>
    LET days == {c.end_time : c \in Collected}
    IN  /\ Len(emitted) = Cardinality(days)
        /\ {emitted[i].record["date"] : i \in DOMAIN emitted} = days
        /\ \A i \in DOMAIN emitted :
             LET r == emitted[i].record
                 mine == {c \in Collected : c.end_time = r["date"]}
             IN  /\ DOMAIN r = {"date", "page_id", "business_account_id"}
                                 \cup {c.key : c \in mine}
                 /\ r["page_id"] = AllAccounts[maccount].page_id
                 /\ r["business_account_id"] = AllAccounts[maccount].id
                 /\ \A c \in mine : r[c.key] = c.value

\* The periods of an account have been reconciled, in the order of the code,
\* with one end_time for which the day, week and 28-day queries each
\* returned impressions, not all of the same value.
C14_Witness ==
  /\ mpc = "emitted"
  /\ order = Periods
  /\ \E i \in DOMAIN emitted :
       LET r == emitted[i].record
       IN  /\ {"impressions", "impressions_week", "impressions_days_28"}
                \subseteq DOMAIN r
           /\ r["impressions"] # r["impressions_week"]

\* C15: whatever the order in which the periods are iterated, the messages
\* yielded for the account are those yielded in the order of the code: the
\* same records, in the same order.
C15_PeriodOrderIrrelevant ==
  mpc = "emitted" =>
    emitted = account_records(Periods, results, AllAccounts[maccount])

\* The periods have been reconciled in the reverse of the code's order, with
\* two end_times and, for one of them, impressions of the day and of the
\* week of different values.
C15_Witness ==
  /\ mpc = "emitted"
  /\ order = <<"lifetime", "days_28", "week", "day">>
  /\ Len(emitted) = 2
  /\ \E i \in DOMAIN emitted :
       LET r == emitted[i].record
       IN  /\ {"impressions", "impressions_week"} \subseteq DOMAIN r
           /\ r["impressions"] # r["impressions_week"]

\* C16: fields() returns exactly the names of the entries whose breadcrumb
\* has length 2 and whose metadata has selected true or inclusion automatic,
\* less base_properties; no base property is in it, and every name in it is
\* that of an entry of breadcrumb length 2.
C16_FieldsAreSelectedLessBase ==
  (cpc = "returned" /\ fn = "fields") =>
    LET entries == IF args.catalog_entry = None THEN EmptyMap
                   ELSE args.catalog_entry.metadata
        Marked(b) ==
          \/ ("selected" \in DOMAIN entries[b] /\ entries[b]["selected"] = TRUE)
          \/ ("inclusion" \in DOMAIN entries[b]
              /\ entries[b]["inclusion"] = "automatic")
        leaves == {b \in DOMAIN entries : Len(b) = 2}
    IN  /\ ret.value = {b[2] : b \in {x \in leaves : Marked(x)}}
                         \ args.base_properties
        /\ ret.value \cap args.base_properties = {}
        /\ \A name \in ret.value : \E b \in leaves : b[2] = name

\* fields() has been called for a stream with base property page_id and a
\* catalog in which page_id is automatic, media_url is selected and a nested
\* property is selected; it returned media_url alone.
C16_Witness ==
  /\ cpc = "returned"
  /\ fn = "fields"
  /\ args.base_properties = {"page_id", "business_account_id"}
  /\ args.catalog_entry # None
  /\ args.catalog_entry.metadata =
       (<<"properties", "page_id">> :> [inclusion |-> "automatic"])
         @@ (<<"properties", "media_url">> :> [selected |-> TRUE])
         @@ (<<"properties", "children", "properties", "id">>
               :> [selected |-> TRUE])
  /\ ret.value = {"media_url"}

\* Whether the list of keys holds the key of a piece of a query.
Blocked(piece, keys) == \E i \in DOMAIN keys : keys[i] = <<piece[1]>>

\* C17 as stated: for a URL whose query, if any, is made of key=value
\* parameters (a value may hold a "="), remove_params_from_url does not fail;
\* it returns the URL unchanged when none of its keys is to be removed (also
\* when it has no query), and otherwise the same scheme, host and path with
\* the parameters kept, in their order.
C17_StripParamsKeepsTheRest ==
  (/\ cpc = "returned"
   /\ fn = "remove_params_from_url"
   /\ \A i \in DOMAIN args.parts.pieces : Len(args.parts.pieces[i]) >= 2) =>
    /\ ~ret.raised
    /\ LET keeps(piece) == ~Blocked(piece, args.params)
           kept == SelectSeq(args.parts.pieces, keeps)
       IN  IF kept = args.parts.pieces THEN ret.value = args.url
           ELSE IF kept = <<>>
             THEN ret.value \in {UrlBase, UrlBase \o <<"?">>}
             ELSE ret.value = UrlBase \o <<"?">> \o join("&", kept)

\* Whether a URL has k as the key of a query parameter.
HasQueryKey(url, k) ==
  \E i \in 2..Len(url) : url[i] = k /\ url[i - 1] \in {"?", "&"}

\* C18 as stated: in a message make_record returns, neither media_url nor
\* profile_picture_url, where there and not empty, has _nc_sid, _nc_cat or
\* ccb as a query key.
C18_BothUrlsCleaned ==
  (cpc = "returned" /\ fn = "make_record" /\ ~ret.raised) =>
    \A field \in {"media_url", "profile_picture_url"} :
      field \in DOMAIN ret.value.record =>
        \A k \in {"_nc_sid", "_nc_cat", "ccb"} :
          ~HasQueryKey(ret.value.record[field], k)

\* C19: the lower bound build_range returns is the earlier of its upper
\* bound and L, where L is today less buffer_days (the start of the current
\* local day, 30 days back) when no bookmark is stored or the stored one is
\* earlier than that, and the stored bookmark itself, as parsed, otherwise: a
\* bookmark equal to today less buffer_days is used as it is.
C19_LowerBoundByState ==
  pc = "ranged" =>
    LET upper == range[2]
        floor == [inst |-> ((now + tz) \div 24) * 24 - tz - 24 * 30,
                  off |-> tz]
        stored == StoredBookmark(state)
        L == IF stored = <<>> THEN floor
             ELSE IF stored[1] < floor.inst THEN floor
             ELSE [inst |-> stored[1], off |-> 0]
    IN  range[1] = (IF upper.inst < L.inst THEN upper ELSE L)

\* build_range has been called, in a local timezone other than UTC, with a
\* stored bookmark equal to today less buffer_days, and returned the
\* bookmark as parsed.
C19_Witness ==
  /\ pc = "ranged"
  /\ tz # 0
  /\ StoredBookmark(state) = <<((now + tz) \div 24) * 24 - tz - 24 * 30>>
  /\ range[1] = [inst |-> StoredBookmark(state)[1], off |-> 0]

\* C21: a sync whose catalog has an entry with a stream name that is not in
\* STREAM_CLS ends by raising InstagramTapException.
HasUnknownStream(catalog) ==
  \E i \in DOMAIN catalog :
    \A k \in DOMAIN STREAM_CLS : STREAM_CLS[k].name # catalog[i].stream

C21_UnknownStreamIsFatal ==
  (fn = "sync" /\ cpc = "returned" /\ HasUnknownStream(args.catalog))
    => (ret.raised /\ ret.value.error = "InstagramTapException")

\* The insight calls made so far for the media of account b.
CallsOf(b) == {k \in DOMAIN calls : calls[k].account = b}

\* C22: in media_insights, the insight call that fails with subcode 2108006
\* for a media of account k leaves the iteration at the next account (at the
\* end of the iteration when k is the last account) and raises nothing; and
\* in an iteration that has ended normally every account after k had its
\* media listed, an insight call made for each of its media up to its own
\* first failure of that subcode, and exactly one record yielded, carrying
\* that account's ids, for each of those media whose call returned.
C22_BreakIsScopedToOneAccount ==
  kind = "media_insights" =>
    \A k \in DOMAIN calls :
      LET c == calls[k]
      IN  ConversionError(c) =>
            /\ (k = Len(calls) /\ Len(lists) = c.account) =>
                  /\ ipc \in {"account", "done", "list_raised"}
                  /\ (ipc = "done") = (c.account = Len(api_accounts)
                                         /\ raised = NoExc)
                  /\ (ipc = "account") => ipos = 0
            /\ ipc = "done" =>
                  /\ Len(lists) = Len(api_accounts)
                  /\ raised = NoExc
                  /\ \A b \in (c.account + 1)..Len(api_accounts) :
                       \A j \in DOMAIN lists[b] :
                         (\A k2 \in CallsOf(b) :
                            calls[k2].pos < j => ~ConversionError(calls[k2]))
                           => /\ \E k2 \in CallsOf(b) :
                                   /\ k2 > k
                                   /\ calls[k2].pos = j
                              /\ \A k2 \in CallsOf(b) :
                                   (calls[k2].pos = j
                                      /\ ~calls[k2].outcome.raised)
                                     => Cardinality(
                                          {i \in DOMAIN yielded :
                                             /\ yielded[i].record["id"]
                                                  = lists[b][j].id
                                             /\ yielded[i].record["page_id"]
                                                  = api_accounts[b].page_id
                                             /\ yielded[i]
                                                  .record["business_account_id"]
                                                  = api_accounts[b].id}) = 1

\* A media_insights iteration over two accounts has ended normally: the first
\* media of the first account failed with subcode 2108006, and a record was
\* yielded for a media of the second account.
C22_Witness ==
  /\ kind = "media_insights"
  /\ ipc = "done"
  /\ Len(api_accounts) = 2
  /\ \E k \in DOMAIN calls :
       /\ ConversionError(calls[k])
       /\ calls[k].account = 1
       /\ calls[k].pos = 1
  /\ \E i \in DOMAIN yielded :
       /\ yielded[i].record["page_id"] = api_accounts[2].page_id
       /\ \E j \in DOMAIN lists[2] :
            yielded[i].record["id"] = lists[2][j].id

====
